---------------------------- MODULE Spec2Model ----------------------------
(***************************************************************************)
(* A model of ilovetj.py: the natural sort key (sectioned_mixed_key), the  *)
(* thread launcher run_parallel, the source resolver, the output path      *)
(* selection and the stage pipeline that chains them.                      *)
(*                                                                         *)
(* Strings are sequences of one-character strings, so that splitting,      *)
(* prefix matching and formatting are computed character by character.     *)
(***************************************************************************)
EXTENDS Integers, Sequences, FiniteSets, TLC

(***************************************************************************)
(* Bounds of the model.                                                    *)
(***************************************************************************)
MaxStemLen == 3

\* run_parallel on its own: the number of tasks and the largest max_active
MaxTasks == 4

MaxActive == 2

\* the number of external invocations that fail in one run
MaxFail == 1

\* the number of sources on the command line
MaxSrc == 2

\* the numbered output paths that may exist already
MaxNr == 3

\* the pipeline: the number of pages of all source documents together and
\* the largest --concurrency
MaxTotalPages == 2

MaxConcurrency == 2

(***************************************************************************)
(* Characters.  CodeOrder lists the characters the model uses in ascending *)
(* code point order, which is the order Python compares str values by.     *)
(***************************************************************************)
CodeOrder ==
  << "\"", "-", ".", "/", "0", "1", "2", "3", "4", "5", "6", "7", "8", "9",
     "A", "B", "C", "D", "E", "G", "I", "L", "M", "N", "R", "S", "U", "Z",
     "_", "d", "f", "g", "n", "o", "p", "t", "x" >>

Digits == << "0", "1", "2", "3", "4", "5", "6", "7", "8", "9" >>

Ord(c) == CHOOSE i \in 1..Len(CodeOrder) : CodeOrder[i] = c

IsDigit(c) == \E i \in 1..Len(Digits) : Digits[i] = c

DigitVal(c) == (CHOOSE i \in 1..Len(Digits) : Digits[i] = c) - 1

\* a word character that is neither a digit nor the underscore
IsLetter(c) == c \in { "A", "B", "C", "D", "E", "G", "I", "L", "M", "N", "R",
                       "S", "U", "Z", "d", "f", "g", "n", "o", "p", "t", "x" }

\* the separator pattern of sectioned_mixed_key: '-|_|\W'
IsSep(c) == c = "-" \/ c = "_" \/ ~(IsLetter(c) \/ IsDigit(c) \/ c = "_")

RECURSIVE StrLess(_, _)
StrLess(s, t) ==
  IF t = << >> THEN FALSE
  ELSE IF s = << >> THEN TRUE
  ELSE IF Head(s) = Head(t) THEN StrLess(Tail(s), Tail(t))
  ELSE Ord(Head(s)) < Ord(Head(t))

IsPrefix(p, s) == Len(p) <= Len(s) /\ SubSeq(s, 1, Len(p)) = p

IsSuffix(p, s) == Len(p) <= Len(s) /\ SubSeq(s, Len(s) - Len(p) + 1, Len(s)) = p

\* int(k) of a digit run
RECURSIVE IntOf(_)
IntOf(k) ==
  IF k = << >> THEN 0
  ELSE 10 * IntOf(SubSeq(k, 1, Len(k) - 1)) + DigitVal(k[Len(k)])

\* str(n) of a natural number
RECURSIVE StrOf(_)
StrOf(n) ==
  IF n < 10 THEN << Digits[n + 1] >>
  ELSE Append(StrOf(n \div 10), Digits[(n % 10) + 1])

(***************************************************************************)
(* sectioned_mixed_key.  A key is a list of tokens; a token is an int or a *)
(* str, kept apart by the field int.                                       *)
(***************************************************************************)
IntTok(n) == [int |-> TRUE, n |-> n, s |-> << >>]

StrTok(s) == [int |-> FALSE, n |-> 0, s |-> s]

\* re.split('-|_|\W', x): the sections between separator characters
RECURSIVE SplitSections(_, _)
SplitSections(x, cur) ==
  IF x = << >> THEN << cur >>
  ELSE IF IsSep(Head(x)) THEN << cur >> \o SplitSections(Tail(x), << >>)
  ELSE SplitSections(Tail(x), Append(cur, Head(x)))

\* re.split('([0-9]+)', s) without its empty pieces: the maximal runs of
\* digits and of non-digits of a section, in order
RECURSIVE SplitRuns(_, _)
SplitRuns(s, cur) ==
  IF s = << >> THEN (IF cur = << >> THEN << >> ELSE << cur >>)
  ELSE IF cur = << >> \/ IsDigit(Head(s)) = IsDigit(cur[1])
       THEN SplitRuns(Tail(s), Append(cur, Head(s)))
       ELSE << cur >> \o SplitRuns(Tail(s), << Head(s) >>)

LastIsInt(keys) == Len(keys) > 0 /\ keys[Len(keys)].int

\* the body of the inner loop for one piece k
KeyStepLexical(keys, k) == Append(keys, StrTok(k))

KeyStep(keys, k) ==
  IF IsDigit(k[1])
  THEN (IF LastIsInt(keys) THEN Append(keys, StrTok(<< >>)) ELSE keys)
         \o << IntTok(IntOf(k)) >>
  ELSE Append(keys, StrTok(k))

RECURSIVE KeyRuns(_, _)
KeyRuns(keys, runs) ==
  IF runs = << >> THEN keys
  ELSE KeyRuns(KeyStep(keys, Head(runs)), Tail(runs))

\* the end of a section with a sentinel above every number
KeySectionHighSentinel(keys, s) ==
  LET ks == KeyRuns(keys, SplitRuns(s, << >>))
  IN  IF Len(ks) > 0 /\ ~LastIsInt(ks) THEN Append(ks, IntTok(100000)) ELSE ks

\* the end of a section: the sentinel -1 after a str token
KeySection(keys, s) ==
  LET ks == KeyRuns(keys, SplitRuns(s, << >>))
  IN  IF Len(ks) > 0 /\ ~LastIsInt(ks) THEN Append(ks, IntTok(-1)) ELSE ks

RECURSIVE KeySections(_, _)
KeySections(keys, sections) ==
  IF sections = << >> THEN keys
  ELSE KeySections(KeySection(keys, Head(sections)), Tail(sections))

sectioned_mixed_key(x) == KeySections(<< >>, SplitSections(x, << >>))

(***************************************************************************)
(* Python's comparison of two lists: the first position where the items    *)
(* are unequal decides, by < on the two items; an int and a str are        *)
(* unequal and < between them raises TypeError.  Without such a position   *)
(* the shorter list is the smaller.                                        *)
(***************************************************************************)
TokCmp(a, b) ==
  IF a.int # b.int THEN "TypeError"
  ELSE IF a.int THEN (IF a.n < b.n THEN "lt" ELSE "gt")
  ELSE (IF StrLess(a.s, b.s) THEN "lt" ELSE "gt")

RECURSIVE ListCmp(_, _)
ListCmp(k1, k2) ==
  IF k1 = << >> /\ k2 = << >> THEN "eq"
  ELSE IF k1 = << >> THEN "lt"
  ELSE IF k2 = << >> THEN "gt"
  ELSE IF Head(k1) = Head(k2) THEN ListCmp(Tail(k1), Tail(k2))
  ELSE TokCmp(Head(k1), Head(k2))

(***************************************************************************)
(* State.                                                                  *)
(***************************************************************************)
VARIABLES
  \* comparing two stems by their keys, as sorted() does
  sa, sb,          \* the two stems
  ka, kb,          \* their keys, once computed
  cmp,             \* the outcome of comparing ka with kb
  kpc              \* "idle", "start", "keyed", "compared"

keyVars == << sa, sb, ka, kb, cmp, kpc >>

VARIABLES
  \* what the program is given
  prog_args,       \* the parsed command line
  is_windows,
  fs_files,        \* the paths that are files
  fs_dirs,         \* the paths that are directories
  pages            \* the number of pages of each source pdf

envVars == << prog_args, is_windows, fs_files, fs_dirs, pages >>

VARIABLES
  \* run_parallel(args_set, runfn, max_active)
  args_set,        \* the tasks: [name, ins, outs], what runfn reads and writes
  max_active,
  pc,              \* where the main thread is
  argi,            \* the loop variable arg, as an index into args_set
  nr_active,
  mreg,            \* the value of nr_active the main thread read for += 1,
                   \* 0 outside the update
  threads,         \* the list threads: [st, arg, reg] of every thread started,
                   \* reg the value the thread read for -= 1, 0 outside the update
  tmpfiles,        \* the names of the files in tempdir
  nfail,           \* external invocations that failed although their inputs exist
  err_called       \* the threads in which err() has been called: "main", "worker"

parVars == << args_set, max_active, pc, argi, nr_active, mreg, threads,
              tmpfiles, nfail, err_called >>

VARIABLES
  \* the main program
  pdfs,            \* the source documents, in processing order
  srci,            \* the position in prog_args.src of the source being resolved
  stage,           \* the stage whose tasks run_parallel is running
  srcs,            \* the current list of artifact names
  new_srcs,        \* the list the running stage builds (resized, merged, labeled)
  label_files,     \* the overlay file of each artifact (label_files, number_files)
  output_path,
  nr,              \* the number tried for the numbered output path
  collected,       \* the arguments of the final convert, once it has run
  exit_status      \* the exit status of the process, -1 while it runs

mainVars == << pdfs, srci, stage, srcs, new_srcs, label_files, output_path, nr,
               collected, exit_status >>

vars == << keyVars, envVars, parVars, mainVars >>

StrsUpTo(A, n) == UNION { [1..m -> A] : m \in 0..n }

(***************************************************************************)
(* Comparing two stems: sorted(l, key=...) computes the key of every item  *)
(* first and then compares keys.                                           *)
(***************************************************************************)
StemAlphabet == { "D", "0", "1", "2", "-" }

Stems == StrsUpTo(StemAlphabet, MaxStemLen)

KeyIdle ==
  /\ sa = << >> /\ sb = << >> /\ ka = << >> /\ kb = << >>
  /\ cmp = "none" /\ kpc = "idle"

None == [some |-> FALSE, v |-> << >>]

Some(x) == [some |-> TRUE, v |-> x]

NoArgs ==
  [src |-> << >>, keep_order |-> FALSE, output |-> << >>,
   numbered_output |-> FALSE, header |-> FALSE, footer |-> FALSE,
   label_sep |-> None, number_start |-> None, concurrency |-> 1]

EnvIdle ==
  /\ prog_args = NoArgs /\ is_windows = FALSE
  /\ fs_files = { } /\ fs_dirs = { } /\ pages = << >>

ParIdle ==
  /\ args_set = << >> /\ max_active = 1 /\ pc = "idle" /\ argi = 0
  /\ nr_active = 0 /\ mreg = 0 /\ threads = << >> /\ tmpfiles = { }
  /\ nfail = 0 /\ err_called = { }

MainIdle ==
  /\ pdfs = << >> /\ srci = 0 /\ stage = "none" /\ srcs = << >>
  /\ new_srcs = << >> /\ label_files = << >> /\ output_path = << >>
  /\ nr = 0 /\ collected = << >> /\ exit_status = -1

InitKey ==
  /\ EnvIdle /\ ParIdle /\ MainIdle
  /\ sa \in Stems
  /\ sb \in Stems
  /\ ka = << >>
  /\ kb = << >>
  /\ cmp = "none"
  /\ kpc = "start"

ComputeKeys ==
  /\ kpc = "start"
  /\ ka' = sectioned_mixed_key(sa)
  /\ kb' = sectioned_mixed_key(sb)
  /\ kpc' = "keyed"
  /\ UNCHANGED << sa, sb, cmp, envVars, parVars, mainVars >>

CompareKeys ==
  /\ kpc = "keyed"
  /\ cmp' = ListCmp(ka, kb)
  /\ kpc' = "compared"
  /\ UNCHANGED << sa, sb, ka, kb, envVars, parVars, mainVars >>

NextKey == ComputeKeys \/ CompareKeys

SpecKey == InitKey /\ [][NextKey]_vars

(***************************************************************************)
(* Claims about the natural key.                                           *)
(***************************************************************************)
KeyLE(k1, k2) == ListCmp(k1, k2) \in { "lt", "eq" }

\* C7: comparison of the keys of any two stems is defined (never an int
\* token against a str token) and is a total order: reflexive,
\* antisymmetric, total and transitive.
C7_KeyComparisonIsTotalOrder ==
  kpc = "compared" =>
    /\ cmp # "TypeError"
    /\ ListCmp(ka, ka) = "eq"
    /\ (cmp = "lt" <=> ListCmp(kb, ka) = "gt")
    /\ (cmp = "eq" <=> ka = kb)
    /\ \A sc \in Stems :
         LET kc == sectioned_mixed_key(sc)
         IN  KeyLE(ka, kb) /\ KeyLE(kb, kc) => KeyLE(ka, kc)

AllDigits(r) == r # << >> /\ \A i \in 1..Len(r) : IsDigit(r[i])

\* a = P r S with r a maximal digit run of a that starts after position i
\* and is n characters long
RunAt(a, i, n) ==
  /\ n >= 1 /\ i + n <= Len(a)
  /\ AllDigits(SubSeq(a, i + 1, i + n))
  /\ (i > 0 => ~IsDigit(a[i]))
  /\ (i + n < Len(a) => ~IsDigit(a[i + n + 1]))

\* a and b are the same but for the digit run after position i, which is
\* na characters in a and nb characters in b
OneRunApart(a, b, i, na, nb) ==
  /\ RunAt(a, i, na) /\ RunAt(b, i, nb)
  /\ SubSeq(a, 1, i) = SubSeq(b, 1, i)
  /\ SubSeq(a, i + na + 1, Len(a)) = SubSeq(b, i + nb + 1, Len(b))

\* C8: two stems that differ only in one digit run are ordered by the
\* value of that run: key(a) < key(b) iff int(run of a) < int(run of b).
C8_DigitRunsOrderNumerically ==
  kpc = "compared" =>
    \A i \in 0..Len(sa), na \in 1..Len(sa), nb \in 1..Len(sb) :
      OneRunApart(sa, sb, i, na, nb) =>
        /\ cmp # "TypeError"
        /\ (cmp = "lt" <=>
              IntOf(SubSeq(sa, i + 1, i + na)) < IntOf(SubSeq(sb, i + 1, i + nb)))

C8_Witness ==
  /\ kpc = "compared"
  /\ sa = << "D", "2" >> /\ sb = << "D", "1", "0" >>
  /\ OneRunApart(sa, sb, 1, 1, 2)
  /\ cmp = "lt"

(***************************************************************************)
(* run_parallel(args_set, runfn, max_active).                              *)
(*                                                                         *)
(* The main thread runs the for loop: it binds arg, adds one to nr_active  *)
(* (a read, then a write), starts a thread and waits while nr_active >=    *)
(* max_active; after the loop it joins every thread.  A thread calls the   *)
(* lambda, which reads arg when it runs, then runfn, then subtracts one    *)
(* from nr_active (a read, then a write).  nr_active is shared without a   *)
(* lock, so the reads and writes of the two sides interleave.              *)
(***************************************************************************)
Thread(st, a, r) == [st |-> st, arg |-> a, reg |-> r]

ThreadIds == 1..Len(threads)

\* for arg in args_set: the next item is bound to arg; nr_active += 1 then
\* starts with the read of nr_active
Iterate ==
  /\ pc = "rp_for"
  /\ argi < Len(args_set)
  /\ argi' = argi + 1
  /\ mreg' = nr_active
  /\ pc' = "rp_launch"
  /\ UNCHANGED << args_set, max_active, nr_active, threads, tmpfiles, nfail,
                  err_called >>
  /\ UNCHANGED << keyVars, envVars, mainVars >>

\* the for loop is exhausted
LoopEnd ==
  /\ pc = "rp_for"
  /\ argi = Len(args_set)
  /\ pc' = "rp_join"
  /\ UNCHANGED << args_set, max_active, argi, nr_active, mreg, threads,
                  tmpfiles, nfail, err_called >>
  /\ UNCHANGED << keyVars, envVars, mainVars >>

\* the write of nr_active += 1, then t.start() and threads.append(t)
Launch ==
  /\ pc = "rp_launch"
  /\ nr_active' = mreg + 1
  /\ mreg' = 0
  /\ threads' = Append(threads, Thread("started", 0, 0))
  /\ pc' = "rp_wait"
  /\ UNCHANGED << args_set, max_active, argi, tmpfiles, nfail, err_called >>
  /\ UNCHANGED << keyVars, envVars, mainVars >>

\* while nr_active >= max_active: time.sleep(0.1)
ThrottleOpen == nr_active < max_active

Throttle ==
  /\ pc = "rp_wait"
  /\ ThrottleOpen
  /\ pc' = "rp_for"
  /\ UNCHANGED << args_set, max_active, argi, nr_active, mreg, threads,
                  tmpfiles, nfail, err_called >>
  /\ UNCHANGED << keyVars, envVars, mainVars >>

\* for t in threads: t.join()
AllJoinedNoWait == TRUE

\* the join loop stops one thread short
AllJoinedButLast == \A t \in 1..(Len(threads) - 1) : threads[t].st = "dead"

AllJoined == \A t \in ThreadIds : threads[t].st = "dead"

JoinAll ==
  /\ pc = "rp_join"
  /\ AllJoined
  /\ pc' = "rp_ret"
  /\ UNCHANGED << args_set, max_active, argi, nr_active, mreg, threads,
                  tmpfiles, nfail, err_called >>
  /\ UNCHANGED << keyVars, envVars, mainVars >>

\* the thread's target, lambda: run_and_dec(arg), reads arg when it is called
ThreadBind(t) ==
  /\ threads[t].st = "started"
  /\ threads' = [threads EXCEPT ![t] = Thread("running", argi, 0)]
  /\ UNCHANGED << args_set, max_active, pc, argi, nr_active, mreg, tmpfiles,
                  nfail, err_called >>
  /\ UNCHANGED << keyVars, envVars, mainVars >>

\* the files the command of thread t reads are there
InputsExist(t) == args_set[threads[t].arg].ins \subseteq tmpfiles

\* runfn(arg) returns: the external command succeeded and wrote its outputs
FnReturn(t) ==
  /\ threads[t].st = "running"
  /\ InputsExist(t)
  /\ threads' = [threads EXCEPT ![t].st = "returned"]
  /\ tmpfiles' = tmpfiles \cup args_set[threads[t].arg].outs
  /\ UNCHANGED << args_set, max_active, pc, argi, nr_active, mreg, nfail,
                  err_called >>
  /\ UNCHANGED << keyVars, envVars, mainVars >>

\* runfn(arg) calls err(): sys.exit(1) raises SystemExit in the worker
\* thread, which ends that thread and nothing else; nr_active -= 1 is not
\* reached.  A command whose input is missing fails; any command may fail.
FnFail(t) ==
  /\ threads[t].st = "running"
  /\ InputsExist(t) => nfail < MaxFail
  /\ nfail' = IF InputsExist(t) THEN nfail + 1 ELSE nfail
  /\ threads' = [threads EXCEPT ![t].st = "dead"]
  /\ err_called' = err_called \cup { "worker" }
  /\ UNCHANGED << args_set, max_active, pc, argi, nr_active, mreg, tmpfiles >>
  /\ UNCHANGED << keyVars, envVars, mainVars >>

\* nr_active -= 1: the read
DecRead(t) ==
  /\ threads[t].st = "returned"
  /\ threads' = [threads EXCEPT ![t] = Thread("decread", @.arg, nr_active)]
  /\ UNCHANGED << args_set, max_active, pc, argi, nr_active, mreg, tmpfiles,
                  nfail, err_called >>
  /\ UNCHANGED << keyVars, envVars, mainVars >>

\* the thread ends without the write of nr_active -= 1
DecWriteDropped(t) ==
  /\ threads[t].st = "decread"
  /\ threads' = [threads EXCEPT ![t] = Thread("dead", @.arg, 0)]
  /\ UNCHANGED << args_set, max_active, pc, argi, nr_active, mreg, tmpfiles,
                  nfail, err_called >>
  /\ UNCHANGED << keyVars, envVars, mainVars >>

\* nr_active -= 1: the write; the thread ends
DecWrite(t) ==
  /\ threads[t].st = "decread"
  /\ nr_active' = threads[t].reg - 1
  /\ threads' = [threads EXCEPT ![t] = Thread("dead", @.arg, 0)]
  /\ UNCHANGED << args_set, max_active, pc, argi, mreg, tmpfiles, nfail,
                  err_called >>
  /\ UNCHANGED << keyVars, envVars, mainVars >>

RunParallel ==
  \/ Iterate
  \/ LoopEnd
  \/ Launch
  \/ Throttle
  \/ JoinAll
  \/ \E t \in ThreadIds : ThreadBind(t)
  \/ \E t \in ThreadIds : FnReturn(t)
  \/ \E t \in ThreadIds : FnFail(t)
  \/ \E t \in ThreadIds : DecRead(t)
  \/ \E t \in ThreadIds : DecWrite(t)

\* run_parallel is entered: nr_active = 0, threads = []
ParEntry(tasks) ==
  /\ args_set' = tasks
  /\ argi' = 0
  /\ nr_active' = 0
  /\ mreg' = 0
  /\ threads' = << >>
  /\ pc' = "rp_for"

(***************************************************************************)
(* run_parallel on its own, for any list of up to MaxTasks tasks that read *)
(* and write no files.                                                     *)
(***************************************************************************)
PlainTask(i) == [name |-> << "t" >> \o StrOf(i), ins |-> { }, outs |-> { }]

InitPar ==
  /\ KeyIdle /\ EnvIdle /\ MainIdle
  /\ \E n \in 0..MaxTasks : args_set = [i \in 1..n |-> PlainTask(i)]
  /\ max_active \in 1..MaxActive
  /\ pc = "rp_for"
  /\ argi = 0
  /\ nr_active = 0
  /\ mreg = 0
  /\ threads = << >>
  /\ tmpfiles = { }
  /\ nfail = 0
  /\ err_called = { }

NextPar == RunParallel

SpecPar == InitPar /\ [][NextPar]_vars

\* the tasks that were launched and have not finished running runfn
Outstanding == { t \in ThreadIds : threads[t].st \in { "started", "running" } }

\* C1: at no point are more than max_active tasks outstanding.
C1_AtMostMaxActiveOutstanding == Cardinality(Outstanding) <= max_active

\* C2: run_parallel returns only after every task has completed: when it
\* has returned, a thread was launched for every item of args_set and none
\* of them is still running.
C2_ReturnsAfterAllCompleted ==
  pc = "rp_ret" =>
    /\ Len(threads) = Len(args_set)
    /\ \A t \in ThreadIds : threads[t].st = "dead"

C2_Witness ==
  /\ pc = "rp_ret"
  /\ Len(threads) = MaxTasks
  /\ max_active = MaxActive
  /\ \A t \in ThreadIds : threads[t].st = "dead"

(***************************************************************************)
(* Paths.                                                                  *)
(***************************************************************************)
\* the position of the last c in p, 0 without one
LastIndexOf(p, c) ==
  IF \E i \in 1..Len(p) : p[i] = c
  THEN CHOOSE i \in 1..Len(p) : p[i] = c /\ \A j \in (i + 1)..Len(p) : p[j] # c
  ELSE 0

\* the position of the first c in p, 0 without one
FirstIndexOf(p, c) ==
  IF \E i \in 1..Len(p) : p[i] = c
  THEN CHOOSE i \in 1..Len(p) : p[i] = c /\ \A j \in 1..(i - 1) : p[j] # c
  ELSE 0

\* os.path.basename
Basename(p) == SubSeq(p, LastIndexOf(p, "/") + 1, Len(p))

\* os.path.splitext: the extension starts at the last dot of the last
\* component, unless only dots precede it there
SplitExt(p) ==
  LET sepIndex == LastIndexOf(p, "/")
      dotIndex == LastIndexOf(p, ".")
  IN  IF /\ dotIndex > sepIndex
         /\ \E i \in (sepIndex + 1)..(dotIndex - 1) : p[i] # "."
      THEN << SubSeq(p, 1, dotIndex - 1), SubSeq(p, dotIndex, Len(p)) >>
      ELSE << p, << >> >>

stem_name(path) == SplitExt(Basename(path))[1]

IsDir(p) == p \in fs_dirs

IsFile(p) == p \in fs_files

Exists(p) == IsDir(p) \/ IsFile(p)

\* glob.glob(f'{src}/*.pdf') as a set: the entries of src whose name ends
\* in .pdf and does not start with a dot
GlobPdf(src) ==
  { p \in fs_files \cup fs_dirs :
      /\ IsPrefix(src \o << "/" >>, p)
      /\ IsSuffix(<< ".", "p", "d", "f" >>, SubSeq(p, Len(src) + 2, Len(p)))
      /\ \A i \in (Len(src) + 2)..Len(p) : p[i] # "/"
      /\ p[Len(src) + 2] # "." }

\* the orders in which glob may list a set of paths
Listings(S) ==
  { l \in [1..Cardinality(S) -> S] : \A i, j \in 1..Cardinality(S) : i # j => l[i] # l[j] }

(***************************************************************************)
(* sorted_mixed_basename(l): sorted() by the key of each item's stem.  The  *)
(* sort is stable; it raises TypeError when two of the keys cannot be      *)
(* compared, since no order of the list is then established without        *)
(* comparing such a pair.                                                  *)
(***************************************************************************)
BasenameKey(path) == sectioned_mixed_key(stem_name(path))

SortRaises(l) ==
  \E i, j \in 1..Len(l) : ListCmp(BasenameKey(l[i]), BasenameKey(l[j])) = "TypeError"

\* x goes after every item that is not greater than it
RECURSIVE InsertSorted(_, _)
InsertSorted(l, x) ==
  IF l = << >> THEN << x >>
  ELSE IF ListCmp(BasenameKey(x), BasenameKey(Head(l))) = "lt"
       THEN << x >> \o l
       ELSE << Head(l) >> \o InsertSorted(Tail(l), x)

RECURSIVE SortFrom(_, _)
SortFrom(done, l) ==
  IF l = << >> THEN done ELSE SortFrom(InsertSorted(done, Head(l)), Tail(l))

sorted_mixed_basename(l) == SortFrom(<< >>, l)

(***************************************************************************)
(* Determine source files.                                                 *)
(***************************************************************************)
CurSrc == prog_args.src[srci]

HasQuote(src) == Len(src) > 0 /\ src[Len(src)] = "\""

Unquoted(src) == SubSeq(src, 1, Len(src) - 1)

\* an uncaught exception ends the process with a traceback and status 1,
\* and so does err() in the main thread
MainExit(status) ==
  /\ pc' = "exited"
  /\ exit_status' = status

\* pdfs += sorted_mixed_basename(glob.glob(f'{src}/*.pdf'))
AddDir(dir) ==
  \E l \in Listings(GlobPdf(dir)) :
    IF SortRaises(l)
    THEN MainExit(1) /\ UNCHANGED << pdfs, srci >>
    ELSE /\ pdfs' = pdfs \o sorted_mixed_basename(l)
         /\ srci' = srci + 1
         /\ UNCHANGED << pc, exit_status >>

\* pdfs.append(src)
AddFile(file) ==
  /\ pdfs' = Append(pdfs, file)
  /\ srci' = srci + 1
  /\ UNCHANGED << pc, exit_status >>

ResFrame ==
  UNCHANGED << keyVars, envVars, args_set, max_active, argi, nr_active, mreg,
               threads, tmpfiles, nfail, stage, srcs, new_srcs, label_files,
               output_path, nr, collected >>

ResolveDir ==
  /\ pc = "res_for" /\ srci <= Len(prog_args.src)
  /\ IsDir(CurSrc)
  /\ AddDir(CurSrc)
  /\ UNCHANGED err_called
  /\ ResFrame

ResolveFile ==
  /\ pc = "res_for" /\ srci <= Len(prog_args.src)
  /\ ~IsDir(CurSrc) /\ IsFile(CurSrc)
  /\ AddFile(CurSrc)
  /\ UNCHANGED err_called
  /\ ResFrame

\* Windows: a source with a trailing extra double quote
QuotedCase ==
  /\ pc = "res_for" /\ srci <= Len(prog_args.src)
  /\ ~IsDir(CurSrc) /\ ~IsFile(CurSrc)
  /\ is_windows /\ HasQuote(CurSrc)

ResolveQuotedDir ==
  /\ QuotedCase
  /\ IsDir(Unquoted(CurSrc))
  /\ AddDir(Unquoted(CurSrc))
  /\ UNCHANGED err_called
  /\ ResFrame

ResolveQuotedFile ==
  /\ QuotedCase
  /\ ~IsDir(Unquoted(CurSrc)) /\ IsFile(Unquoted(CurSrc))
  /\ AddFile(Unquoted(CurSrc))
  /\ UNCHANGED err_called
  /\ ResFrame

\* err(f'Invalid source file/dir "{src}"')
ResolveInvalid ==
  /\ pc = "res_for" /\ srci <= Len(prog_args.src)
  /\ ~IsDir(CurSrc) /\ ~IsFile(CurSrc)
  /\ ~(QuotedCase /\ Exists(Unquoted(CurSrc)))
  /\ err_called' = err_called \cup { "main" }
  /\ MainExit(1)
  /\ UNCHANGED << pdfs, srci >>
  /\ ResFrame

KeepOrderIgnored == FALSE

KeepOrder == prog_args.keep_order

\* if not prog_args.keep_order: pdfs = sorted_mixed_basename(pdfs)
ResolveEnd ==
  /\ pc = "res_for" /\ srci = Len(prog_args.src) + 1
  /\ IF KeepOrder
     THEN /\ pc' = "resolved"
          /\ UNCHANGED << pdfs, exit_status >>
     ELSE IF SortRaises(pdfs)
          THEN MainExit(1) /\ UNCHANGED pdfs
          ELSE /\ pdfs' = sorted_mixed_basename(pdfs)
               /\ pc' = "resolved"
               /\ UNCHANGED exit_status
  /\ UNCHANGED << srci, err_called >>
  /\ ResFrame

Resolve ==
  \/ ResolveDir
  \/ ResolveFile
  \/ ResolveQuotedDir
  \/ ResolveQuotedFile
  \/ ResolveInvalid
  \/ ResolveEnd

(***************************************************************************)
(* The resolver on its own: two directories A and B, any set of the files  *)
(* below, and up to MaxSrc sources on the command line.                    *)
(***************************************************************************)
Pdf(dir, stem) == dir \o << "/" >> \o stem \o << ".", "p", "d", "f" >>

ResFiles ==
  { Pdf(<< "A" >>, << "D", "1" >>), Pdf(<< "A" >>, << "L", "1" >>),
    Pdf(<< "A" >>, << "L", "2" >>), Pdf(<< "B" >>, << "D", "1" >>),
    Pdf(<< "B" >>, << "1" >>) }

ResSources ==
  { << "A" >>, << "B" >>, << "Z" >>, << "A", "\"" >>,
    Pdf(<< "A" >>, << "L", "2" >>), Pdf(<< "A" >>, << "D", "1" >>),
    Pdf(<< "B" >>, << "D", "1" >>),
    Pdf(<< "A" >>, << "L", "2" >>) \o << "\"" >> }

InitRes ==
  /\ KeyIdle
  /\ \E n \in 1..MaxSrc, k \in BOOLEAN :
       \E src \in [1..n -> ResSources] :
         prog_args = [NoArgs EXCEPT !.src = src, !.keep_order = k]
  /\ is_windows \in BOOLEAN
  /\ fs_files \in SUBSET ResFiles
  /\ fs_dirs = { << "A" >>, << "B" >> }
  /\ pages = << >>
  /\ args_set = << >> /\ max_active = 1 /\ argi = 0
  /\ nr_active = 0 /\ mreg = 0 /\ threads = << >> /\ tmpfiles = { }
  /\ nfail = 0 /\ err_called = { }
  /\ pc = "res_for"
  /\ pdfs = << >>
  /\ srci = 1
  /\ stage = "none" /\ srcs = << >> /\ new_srcs = << >> /\ label_files = << >>
  /\ output_path = << >> /\ nr = 0 /\ collected = << >> /\ exit_status = -1

NextRes == Resolve

SpecRes == InitRes /\ [][NextRes]_vars

\* the path the k-th source stands for: the source itself, or on Windows
\* the source without its trailing double quote
EffSrc(k) ==
  LET src == prog_args.src[k]
  IN  IF ~Exists(src) /\ is_windows /\ HasQuote(src) THEN Unquoted(src) ELSE src

\* the number of documents the k-th source expands to
Expansion(k) == IF IsDir(EffSrc(k)) THEN Cardinality(GlobPdf(EffSrc(k))) ELSE 1

RECURSIVE Offset(_)
Offset(k) == IF k = 1 THEN 0 ELSE Offset(k - 1) + Expansion(k - 1)

\* C9: with keep_order the resolved list is the concatenation, in command
\* line order, of each source's expansion: a file at its position, a
\* directory's documents together at the directory's position, each once
\* per source that names it and in natural key order among themselves.
C9_KeepOrderConcatenates ==
  (pc = "resolved" /\ prog_args.keep_order) =>
    /\ Len(pdfs) = Offset(Len(prog_args.src) + 1)
    /\ \A k \in 1..Len(prog_args.src) :
         IF IsDir(EffSrc(k))
         THEN /\ { pdfs[Offset(k) + j] : j \in 1..Expansion(k) } = GlobPdf(EffSrc(k))
              /\ \A j \in 1..(Expansion(k) - 1) :
                   KeyLE(BasenameKey(pdfs[Offset(k) + j]),
                         BasenameKey(pdfs[Offset(k) + j + 1]))
         ELSE pdfs[Offset(k) + 1] = EffSrc(k)

\* a file named after the directory that holds it: the document is listed
\* twice, and the file (L2) stays behind the directory's documents although
\* its key is not the greatest
C9_Witness ==
  /\ pc = "resolved" /\ prog_args.keep_order
  /\ prog_args.src = << Pdf(<< "A" >>, << "L", "2" >>), << "A" >> >>
  /\ pdfs = << Pdf(<< "A" >>, << "L", "2" >>), Pdf(<< "A" >>, << "D", "1" >>),
               Pdf(<< "A" >>, << "L", "1" >>), Pdf(<< "A" >>, << "L", "2" >>) >>

(***************************************************************************)
(* The output path.                                                        *)
(***************************************************************************)
\* f'{base}.{nr}{ext}'
NumberedPath(path, n) ==
  SplitExt(path)[1] \o << "." >> \o StrOf(n) \o SplitExt(path)[2]

PathFreeInverted(path) == Exists(path)

\* not os.path.exists(output_path)
PathFree(path) == ~Exists(path)

OutFrame ==
  UNCHANGED << keyVars, envVars, args_set, max_active, argi, nr_active, mreg,
               threads, tmpfiles, nfail, err_called, pdfs, srci, stage, srcs,
               new_srcs, label_files, collected, exit_status >>

\* output_path = prog_args.output, and nr = 1 if the numbering loop is entered
ChooseOutput ==
  /\ pc = "out_start"
  /\ output_path' = prog_args.output
  /\ IF prog_args.numbered_output /\ Exists(prog_args.output)
     THEN nr' = 1 /\ pc' = "out_try"
     ELSE UNCHANGED nr /\ pc' = "collect"
  /\ OutFrame

\* one round of the while loop
TryNumber ==
  /\ pc = "out_try"
  /\ output_path' = NumberedPath(prog_args.output, nr)
  /\ IF PathFree(NumberedPath(prog_args.output, nr))
     THEN UNCHANGED nr /\ pc' = "collect"
     ELSE nr' = nr + 1 /\ UNCHANGED pc
  /\ OutFrame

SelectOutput == ChooseOutput \/ TryNumber

(***************************************************************************)
(* The output path selection on its own: a target and any set of existing  *)
(* files among the target and its first MaxNr numbered paths.              *)
(***************************************************************************)
OutTargets ==
  { << "o", ".", "p", "d", "f" >>, << "o" >>, << ".", "o" >>,
    << "d", ".", "d", "/", "o" >>, << "o", ".", "1", ".", "p", "d", "f" >> }

InitOut ==
  /\ KeyIdle
  /\ \E t \in OutTargets, m \in BOOLEAN :
       /\ prog_args = [NoArgs EXCEPT !.output = t, !.numbered_output = m]
       /\ fs_files \in SUBSET ({ t } \cup { NumberedPath(t, n) : n \in 1..MaxNr })
  /\ is_windows = FALSE
  /\ fs_dirs = { }
  /\ pages = << >>
  /\ args_set = << >> /\ max_active = 1 /\ argi = 0
  /\ nr_active = 0 /\ mreg = 0 /\ threads = << >> /\ tmpfiles = { }
  /\ nfail = 0 /\ err_called = { }
  /\ pc = "out_start"
  /\ pdfs = << >> /\ srci = 0
  /\ stage = "none" /\ srcs = << >> /\ new_srcs = << >> /\ label_files = << >>
  /\ output_path = << >> /\ nr = 0 /\ collected = << >> /\ exit_status = -1

NextOut == SelectOutput

SpecOut == InitOut /\ [][NextOut]_vars

\* C10: with numbered output on and the target existing, the chosen path is
\* base.n.ext for the smallest n >= 1 whose path does not exist, and it
\* names no existing file; otherwise the target itself is chosen.
C10_SmallestFreeNumberedPath ==
  pc = "collect" =>
    IF prog_args.numbered_output /\ Exists(prog_args.output)
    THEN /\ ~Exists(output_path)
         /\ \E n \in 1..(MaxNr + 1) :
              /\ output_path = NumberedPath(prog_args.output, n)
              /\ \A m \in 1..(n - 1) : Exists(NumberedPath(prog_args.output, m))
    ELSE output_path = prog_args.output

\* out.pdf and out.1.pdf exist: out.2.pdf is chosen
C10_Witness ==
  /\ pc = "collect"
  /\ prog_args.numbered_output
  /\ prog_args.output = << "o", ".", "p", "d", "f" >>
  /\ fs_files = { << "o", ".", "p", "d", "f" >>, << "o", ".", "1", ".", "p", "d", "f" >> }
  /\ output_path = << "o", ".", "2", ".", "p", "d", "f" >>

(***************************************************************************)
(* Artifact names.                                                         *)
(***************************************************************************)
PNG == << ".", "p", "n", "g" >>

TagSRC == << "S", "R", "C" >>

TagRESIZED == << "R", "E", "S", "I", "Z", "E", "D" >>

TagMERGED == << "M", "E", "R", "G", "E", "D" >>

TagLABEL == << "L", "A", "B", "E", "L" >>

TagLABELED == << "L", "A", "B", "E", "L", "E", "D" >>

TagNUMBER == << "N", "U", "M", "B", "E", "R" >>

TagNUMBERED == << "N", "U", "M", "B", "E", "R", "E", "D" >>

HEADER == << "_", "_", "H", "E", "A", "D", "E", "R", "_", "_" >> \o PNG

FOOTER == << "_", "_", "F", "O", "O", "T", "E", "R", "_", "_" >> \o PNG

\* f'{tag}_{rest}'
Tagged(tag, rest) == tag \o << "_" >> \o rest

\* src.split('_', 1)[1]
AfterTag(src) == SubSeq(src, FirstIndexOf(src, "_") + 1, Len(src))

\* os.path.splitext(src.split('_', 1)[1])[0]
Identity(src) == SplitExt(AfterTag(src))[1]

\* stem.split(sep, 1)[0]: the part before the first occurrence of sep
BeforeSep(stem, sep) ==
  LET at == { i \in 1..(Len(stem) - Len(sep) + 1) :
                SubSeq(stem, i, i + Len(sep) - 1) = sep }
  IN  IF at = { } THEN stem
      ELSE SubSeq(stem, 1, (CHOOSE i \in at : \A j \in at : i <= j) - 1)

Task(name, ins, outs) == [name |-> name, ins |-> ins, outs |-> outs]

\* a dict built by assigning vals[i] to keys[i] for i = 1, 2, ...: a later
\* assignment to the same key replaces an earlier one
DictOf(keys, vals) ==
  [k \in { keys[i] : i \in 1..Len(keys) } |->
     vals[CHOOSE i \in 1..Len(keys) :
            keys[i] = k /\ \A j \in (i + 1)..Len(keys) : keys[j] # k]]

\* the items of l without the repetitions of an earlier item
RECURSIVE FirstOccurrences(_)
FirstOccurrences(l) ==
  IF l = << >> THEN << >>
  ELSE LET rest == FirstOccurrences(SubSeq(l, 1, Len(l) - 1))
           x == l[Len(l)]
       IN  IF \E i \in 1..(Len(l) - 1) : l[i] = x THEN rest ELSE Append(rest, x)

RECURSIVE Flatten(_)
Flatten(ll) == IF ll = << >> THEN << >> ELSE Head(ll) \o Flatten(Tail(ll))

(***************************************************************************)
(* The main program from the header and footer to the final convert.       *)
(***************************************************************************)
\* an external command run by the main thread may fail
MayFail == nfail < MaxFail

\* err() in the main thread: the process exits with status 1
MainErr ==
  /\ nfail' = nfail + 1
  /\ err_called' = err_called \cup { "main" }
  /\ MainExit(1)

\* run_parallel(tasks, fn, prog_args.concurrency) is called for a stage
Dispatch(st, tasks) ==
  /\ ParEntry(tasks)
  /\ max_active' = prog_args.concurrency
  /\ stage' = st

\* prepare resized header and footer: resize_header runs convert in the
\* main thread
PrepareHeaderFooter ==
  /\ pc = "resolved"
  /\ \/ /\ tmpfiles' = tmpfiles \cup (IF prog_args.header THEN { HEADER } ELSE { })
                                \cup (IF prog_args.footer THEN { FOOTER } ELSE { })
        /\ pc' = "render"
        /\ UNCHANGED << nfail, err_called, exit_status >>
     \/ /\ prog_args.header \/ prog_args.footer
        /\ MayFail
        /\ MainErr
        /\ UNCHANGED tmpfiles
  /\ UNCHANGED << keyVars, envVars, args_set, max_active, argi, nr_active, mreg,
                  threads, pdfs, srci, stage, srcs, new_srcs, label_files,
                  output_path, nr, collected >>

\* the file names gs writes for -sOutputFile=SRC_{stem}-%d.png
PageFiles(pdf) ==
  { Tagged(TagSRC, stem_name(pdf) \o << "-" >> \o StrOf(k) \o PNG) :
      k \in 1..pages[pdf] }

\* convert to pngs: one task per pdf, srcs holds SRC_{stem}.png
RenderBuild ==
  /\ pc = "render"
  /\ srcs' = [i \in 1..Len(pdfs) |-> Tagged(TagSRC, stem_name(pdfs[i]) \o PNG)]
  /\ Dispatch("render",
              [i \in 1..Len(pdfs) |->
                 Task(stem_name(pdfs[i]), { }, PageFiles(pdfs[i]))])
  /\ UNCHANGED << keyVars, envVars, tmpfiles, nfail, err_called, pdfs, srci,
                  new_srcs, label_files, output_path, nr, collected, exit_status >>

\* glob.glob(f'{tempdir}/{os.path.splitext(src)[0]}*.png') as a set
GlobPng(src) ==
  { f \in tmpfiles :
      /\ IsPrefix(SplitExt(src)[1], f)
      /\ IsSuffix(PNG, SubSeq(f, Len(SplitExt(src)[1]) + 1, Len(f))) }

\* new_srcs: for every src the sorted names that match its pattern
RenderCollect ==
  /\ pc = "rp_ret" /\ stage = "render"
  /\ \E ls \in [1..Len(srcs) -> UNION { Listings(GlobPng(srcs[i])) : i \in 1..Len(srcs) }] :
       /\ \A i \in 1..Len(srcs) : ls[i] \in Listings(GlobPng(srcs[i]))
       /\ IF \E i \in 1..Len(srcs) : SortRaises(ls[i])
          THEN MainExit(1) /\ UNCHANGED srcs
          ELSE /\ srcs' = Flatten([i \in 1..Len(srcs) |-> sorted_mixed_basename(ls[i])])
               /\ pc' = "resize"
               /\ UNCHANGED exit_status
  /\ UNCHANGED << keyVars, envVars, args_set, max_active, argi, nr_active, mreg,
                  threads, tmpfiles, nfail, err_called, pdfs, srci, stage,
                  new_srcs, label_files, output_path, nr, collected >>

\* the frame of an action that builds a stage's tasks and calls run_parallel
BuildFrame ==
  UNCHANGED << keyVars, envVars, tmpfiles, nfail, err_called, pdfs, srci, srcs,
               output_path, nr, collected, exit_status >>

\* resize to body_height
ResizeBuild ==
  /\ pc = "resize"
  /\ new_srcs' = [i \in 1..Len(srcs) |-> Tagged(TagRESIZED, AfterTag(srcs[i]))]
  /\ Dispatch("resize",
              [i \in 1..Len(srcs) |->
                 Task(AfterTag(stem_name(Tagged(TagRESIZED, AfterTag(srcs[i])))),
                      { srcs[i] },
                      { Tagged(TagRESIZED, AfterTag(srcs[i])) })])
  /\ UNCHANGED label_files
  /\ BuildFrame

\* srcs = resized, srcs = merged, srcs = apply_labels(...): the list the
\* stage built becomes the current list
EndFrame ==
  UNCHANGED << keyVars, envVars, args_set, max_active, argi, nr_active, mreg,
               threads, tmpfiles, nfail, err_called, pdfs, srci, stage,
               new_srcs, label_files, output_path, nr, collected, exit_status >>

ResizeEnd ==
  /\ pc = "rp_ret" /\ stage = "resize"
  /\ srcs' = new_srcs
  /\ pc' = "merge"
  /\ EndFrame

\* the merge stage entered whatever the configuration
MergeWantedAlways == TRUE

MergeWanted == prog_args.header \/ prog_args.footer

\* merge header and footer
MergeBuild ==
  /\ pc = "merge"
  /\ MergeWanted
  /\ new_srcs' = [i \in 1..Len(srcs) |-> Tagged(TagMERGED, AfterTag(srcs[i]))]
  /\ Dispatch("merge",
              [i \in 1..Len(srcs) |->
                 Task(AfterTag(stem_name(Tagged(TagMERGED, AfterTag(srcs[i])))),
                      { srcs[i] }
                        \cup (IF prog_args.header THEN { HEADER } ELSE { })
                        \cup (IF prog_args.footer THEN { FOOTER } ELSE { }),
                      { Tagged(TagMERGED, AfterTag(srcs[i])) })])
  /\ UNCHANGED label_files
  /\ BuildFrame

MergeSkip ==
  /\ pc = "merge"
  /\ ~MergeWanted
  /\ pc' = "label"
  /\ UNCHANGED srcs
  /\ EndFrame

MergeEnd ==
  /\ pc = "rp_ret" /\ stage = "merge"
  /\ srcs' = new_srcs
  /\ pc' = "label"
  /\ EndFrame

LabelWanted == prog_args.label_sep.some

LabelOf(src) == BeforeSep(Identity(src), prog_args.label_sep.v)

LabelFile(src) == Tagged(TagLABEL, LabelOf(src) \o PNG)

\* generate labels: label_files[src] for every src, one task per label
LabelGenBuild ==
  /\ pc = "label"
  /\ LabelWanted
  /\ label_files' = DictOf(srcs, [i \in 1..Len(srcs) |-> LabelFile(srcs[i])])
  /\ LET labels == FirstOccurrences([i \in 1..Len(srcs) |-> LabelOf(srcs[i])])
     IN  Dispatch("labelgen",
                  [i \in 1..Len(labels) |->
                     Task(labels[i], { }, { Tagged(TagLABEL, labels[i] \o PNG) })])
  /\ UNCHANGED new_srcs
  /\ BuildFrame

LabelSkip ==
  /\ pc = "label"
  /\ ~LabelWanted
  /\ pc' = "number"
  /\ UNCHANGED srcs
  /\ EndFrame

\* apply_labels with labeled built back to front
ApplyBuildReversed(st, prefix) ==
  /\ new_srcs' = [i \in 1..Len(srcs) |->
                    Tagged(prefix, Identity(srcs[Len(srcs) + 1 - i]) \o PNG)]
  /\ Dispatch(st,
              [i \in 1..Len(srcs) |->
                 Task(Identity(srcs[i]),
                      { label_files[srcs[i]], srcs[i] },
                      { Tagged(prefix, Identity(srcs[i]) \o PNG) })])
  /\ UNCHANGED label_files
  /\ BuildFrame

\* apply_labels(srcs, label_files, prefix, ...) up to its run_parallel call
ApplyBuild(st, prefix) ==
  /\ new_srcs' = [i \in 1..Len(srcs) |-> Tagged(prefix, Identity(srcs[i]) \o PNG)]
  /\ Dispatch(st,
              [i \in 1..Len(srcs) |->
                 Task(Identity(srcs[i]),
                      { label_files[srcs[i]], srcs[i] },
                      { Tagged(prefix, Identity(srcs[i]) \o PNG) })])
  /\ UNCHANGED label_files
  /\ BuildFrame

\* apply labels
LabelApplyBuild ==
  /\ pc = "rp_ret" /\ stage = "labelgen"
  /\ ApplyBuild("labelapply", TagLABELED)

LabelEnd ==
  /\ pc = "rp_ret" /\ stage = "labelapply"
  /\ srcs' = new_srcs
  /\ pc' = "number"
  /\ EndFrame

NumberWanted == prog_args.number_start.some

NumberFile(n) == Tagged(TagNUMBER, StrOf(n) \o PNG)

\* generate numbers: number_files[src] and one task for every src, the
\* number going up by one from number_start
NumberGenBuild ==
  /\ pc = "number"
  /\ NumberWanted
  /\ label_files' =
       DictOf(srcs, [i \in 1..Len(srcs) |-> NumberFile(prog_args.number_start.v + i - 1)])
  /\ Dispatch("numbergen",
              [i \in 1..Len(srcs) |->
                 Task(StrOf(prog_args.number_start.v + i - 1), { },
                      { NumberFile(prog_args.number_start.v + i - 1) })])
  /\ UNCHANGED new_srcs
  /\ BuildFrame

NumberSkip ==
  /\ pc = "number"
  /\ ~NumberWanted
  /\ pc' = "out_start"
  /\ UNCHANGED srcs
  /\ EndFrame

\* apply numbers
NumberApplyBuild ==
  /\ pc = "rp_ret" /\ stage = "numbergen"
  /\ ApplyBuild("numberapply", TagNUMBERED)

NumberEnd ==
  /\ pc = "rp_ret" /\ stage = "numberapply"
  /\ srcs' = new_srcs
  /\ pc' = "out_start"
  /\ EndFrame

\* the final convert has its inputs: every file of srcs exists, and there is
\* at least one (convert given no image fails)
CollectInputsExist ==
  /\ srcs # << >>
  /\ \A i \in 1..Len(srcs) : srcs[i] \in tmpfiles

\* collect the processed results into the output pdf: convert runs in the
\* main thread; after it the program ends
Collect ==
  /\ pc = "collect"
  /\ \/ /\ CollectInputsExist
        /\ collected' = Append(srcs, output_path)
        /\ MainExit(0)
        /\ UNCHANGED << nfail, err_called >>
     \/ /\ CollectInputsExist => MayFail
        /\ nfail' = IF CollectInputsExist THEN nfail + 1 ELSE nfail
        /\ err_called' = err_called \cup { "main" }
        /\ MainExit(1)
        /\ UNCHANGED collected
  /\ UNCHANGED << keyVars, envVars, args_set, max_active, argi, nr_active, mreg,
                  threads, tmpfiles, pdfs, srci, stage, srcs, new_srcs,
                  label_files, output_path, nr >>

(***************************************************************************)
(* The program from the resolved list of documents to its exit, on a       *)
(* system where numbered output is off (the default outside Windows): the  *)
(* documents were given as files with --keep-order, so any list of the     *)
(* documents below, repetitions included, is a resolved list.              *)
(***************************************************************************)
DocPaths ==
  { Pdf(<< "A" >>, << "D", "1" >>), Pdf(<< "A" >>, << "D", "1", "0" >>),
    Pdf(<< "A" >>, << "L", "1" >>) }

LabelSeps == { None, Some(<< "-" >>) }

NumberStarts == { None, Some(1) }

RECURSIVE TotalPages(_, _)
TotalPages(docs, pp) ==
  IF docs = << >> THEN 0 ELSE pp[Head(docs)] + TotalPages(Tail(docs), pp)

Init ==
  /\ KeyIdle
  /\ \E n \in 1..MaxTotalPages :
       /\ pdfs \in [1..n -> DocPaths]
       /\ pages \in [{ pdfs[i] : i \in 1..n } -> 1..MaxTotalPages]
       /\ TotalPages(pdfs, pages) <= MaxTotalPages
  /\ \E h \in BOOLEAN, f \in BOOLEAN, ls \in LabelSeps, ns \in NumberStarts,
        c \in 1..MaxConcurrency :
       prog_args = [src |-> pdfs, keep_order |-> TRUE,
                    output |-> << "o", ".", "p", "d", "f" >>,
                    numbered_output |-> FALSE, header |-> h, footer |-> f,
                    label_sep |-> ls, number_start |-> ns, concurrency |-> c]
  /\ is_windows = FALSE
  /\ fs_files = { pdfs[i] : i \in 1..Len(pdfs) }
  /\ fs_dirs = { << "A" >> }
  /\ args_set = << >> /\ max_active = 1 /\ argi = 0
  /\ nr_active = 0 /\ mreg = 0 /\ threads = << >> /\ tmpfiles = { }
  /\ nfail = 0 /\ err_called = { }
  /\ pc = "resolved"
  /\ srci = Len(pdfs) + 1
  /\ stage = "none" /\ srcs = << >> /\ new_srcs = << >> /\ label_files = << >>
  /\ output_path = << >> /\ nr = 0 /\ collected = << >> /\ exit_status = -1

Next ==
  \/ PrepareHeaderFooter
  \/ RenderBuild
  \/ RenderCollect
  \/ ResizeBuild
  \/ ResizeEnd
  \/ MergeBuild
  \/ MergeSkip
  \/ MergeEnd
  \/ LabelGenBuild
  \/ LabelSkip
  \/ LabelApplyBuild
  \/ LabelEnd
  \/ NumberGenBuild
  \/ NumberSkip
  \/ NumberApplyBuild
  \/ NumberEnd
  \/ ChooseOutput
  \/ Collect
  \/ Iterate
  \/ LoopEnd
  \/ Launch
  \/ Throttle
  \/ JoinAll
  \/ \E t \in ThreadIds : ThreadBind(t)
  \/ \E t \in ThreadIds : FnReturn(t)
  \/ \E t \in ThreadIds : FnFail(t)
  \/ \E t \in ThreadIds : DecRead(t)
  \/ \E t \in ThreadIds : DecWrite(t)

Spec == Init /\ [][Next]_vars

(***************************************************************************)
(* Failure of an external command.                                         *)
(***************************************************************************)
\* C3: fail-fast: once err has been called in a worker thread, no further
\* thread is launched, no stage is started and the final convert does not
\* run.
C3_WorkerFailureStopsProcess ==
  [][("worker" \in err_called) =>
       /\ Len(threads') <= Len(threads)
       /\ stage' = stage
       /\ ~(pc = "collect" /\ pc' = "exited")]_vars

\* C4: a run in which an external command failed never ends with status 0.
C4_FailureExitsNonZero ==
  (pc = "exited" /\ err_called # { }) => exit_status # 0

(***************************************************************************)
(* The order and the number of the page files.                             *)
(***************************************************************************)
\* the page files of the documents in document order and, within a
\* document, in page order, under a tag
PagesInOrder(tag) ==
  Flatten([i \in 1..Len(pdfs) |->
             [k \in 1..pages[pdfs[i]] |->
                Tagged(tag, stem_name(pdfs[i]) \o << "-" >> \o StrOf(k) \o PNG)]])

\* every page of every document has been rendered
AllRendered == \A i \in 1..Len(pdfs) : PageFiles(pdfs[i]) \subseteq tmpfiles

\* the arguments of the final convert without the output path
CollectedPages == SubSeq(collected, 1, Len(collected) - 1)

\* C5: when every page was rendered and no command failed, the list passed
\* to the final convert holds the pages in document order and, within a
\* document, in page order.
C5_CollectInDocumentAndPageOrder ==
  (collected # << >> /\ AllRendered /\ err_called = { }) =>
    [i \in 1..Len(CollectedPages) |-> Identity(CollectedPages[i])]
      = [i \in 1..Len(PagesInOrder(TagSRC)) |-> Identity(PagesInOrder(TagSRC)[i])]

\* C6: when every page was rendered, the list after the render stage holds
\* exactly one entry for every rendered page, each page under the document
\* it was rendered from.
C6_OneEntryPerRenderedPage ==
  (pc = "resize" /\ AllRendered) =>
    /\ Len(srcs) = TotalPages(pdfs, pages)
    /\ srcs = PagesInOrder(TagSRC)

(***************************************************************************)
(* The stages as maps of the list of names.                                *)
(***************************************************************************)
\* the tag of a name: src.split('_', 1)[0]
TagOf(src) == SubSeq(src, 1, FirstIndexOf(src, "_") - 1)

\* the stages that map every name to one name, and the tag each one gives
OneToOneStages == { "resize", "merge", "labelapply", "numberapply" }

StageTag(st) ==
  CASE st = "resize" -> TagRESIZED
    [] st = "merge" -> TagMERGED
    [] st = "labelapply" -> TagLABELED
    [] st = "numberapply" -> TagNUMBERED

\* a 1:1 stage ends: run_parallel has returned and the list the stage built
\* becomes srcs
StageEnds == pc = "rp_ret" /\ stage \in OneToOneStages /\ pc' # pc

\* C11: a 1:1 stage keeps positions: the list it leaves has the length of the
\* list it was given, and its i-th name has the identity of the i-th name
\* given under the tag of the stage.
C11_OneToOneStagesKeepPositions ==
  [][StageEnds =>
       /\ Len(srcs') = Len(srcs)
       /\ \A i \in 1..Len(srcs) :
            /\ Identity(srcs'[i]) = Identity(srcs[i])
            /\ TagOf(srcs'[i]) = StageTag(stage)]_vars

\* numbers were applied to two different pages by concurrent tasks
C11_Witness ==
  /\ pc = "out_start" /\ stage = "numberapply"
  /\ prog_args.concurrency = MaxConcurrency
  /\ Len(srcs) = 2 /\ srcs[1] # srcs[2]
  /\ \A i \in 1..Len(srcs) : TagOf(srcs[i]) = TagNUMBERED
  /\ \A t \in ThreadIds : threads[t].st = "dead"

\* a stage is skipped: its trigger is absent when the program reaches it
SkipsStage ==
  \/ pc = "merge" /\ ~prog_args.header /\ ~prog_args.footer
  \/ pc = "label" /\ ~prog_args.label_sep.some
  \/ pc = "number" /\ ~prog_args.number_start.some

\* C12: a stage whose trigger is absent is skipped: the step from it
\* dispatches no task and leaves the list of names as it is.
C12_SkippedStageChangesNothing ==
  [][SkipsStage =>
       /\ srcs' = srcs
       /\ pc' \in { "label", "number", "out_start" }
       /\ << args_set, threads, stage, tmpfiles >>' = << args_set, threads, stage, tmpfiles >>]_vars

\* merge, label and number were all skipped: the resized list reaches the
\* final convert
C12_Witness ==
  /\ pc = "collect" /\ stage = "resize"
  /\ ~prog_args.header /\ ~prog_args.footer
  /\ ~prog_args.label_sep.some /\ ~prog_args.number_start.some
  /\ Len(srcs) = 2
  /\ \A i \in 1..Len(srcs) : TagOf(srcs[i]) = TagRESIZED

(***************************************************************************)
(* Labels.                                                                 *)
(***************************************************************************)
\* run_parallel is running for the current stage
InRunParallel == pc \in { "rp_for", "rp_launch", "rp_wait", "rp_join", "rp_ret" }

\* the threads that have called runfn, and the item of args_set each has
\* called it with
Invoked == { t \in ThreadIds : threads[t].st # "started" }

\* the label values of the pages of srcs
LabelValues == { LabelOf(srcs[i]) : i \in 1..Len(srcs) }

\* C13: one label generation task is dispatched for every label value and
\* none is run twice, and the composite of every page reads the label file
\* of the page's own label value.
C13_OneLabelPerValue ==
  /\ (InRunParallel /\ stage = "labelgen") =>
       /\ { args_set[i].name : i \in 1..Len(args_set) } = LabelValues
       /\ Len(args_set) = Cardinality(LabelValues)
       /\ \A t, u \in Invoked : t # u => threads[t].arg # threads[u].arg
  /\ (InRunParallel /\ stage = "labelapply") =>
       /\ Len(args_set) = Len(srcs)
       /\ \A i \in 1..Len(srcs) :
            args_set[i].ins = { Tagged(TagLABEL, LabelOf(srcs[i]) \o PNG), srcs[i] }
       /\ \A t \in Invoked : threads[t].arg = t

(***************************************************************************)
(* The items of args_set and the threads that run them.                    *)
(***************************************************************************)
\* C14: every item of args_set is run exactly once, by the thread launched
\* for it: a thread that has called runfn has called it with the item of its
\* own position, and when run_parallel has returned every item has been run.
C14_EachItemRunOnceByItsThread ==
  /\ \A t \in Invoked : threads[t].arg = t
  /\ pc = "rp_ret" =>
       \A i \in 1..Len(args_set) :
         Cardinality({ t \in Invoked : threads[t].arg = i }) = 1

(***************************************************************************)
(* run_parallel under fair scheduling: the main thread takes its next step *)
(* when it can (the throttle loop polls nr_active, so it passes when the    *)
(* condition stays open), and so does every started thread; no command is  *)
(* obliged to succeed.                                                     *)
(***************************************************************************)
\* a step of thread t other than a failure of its command
ThreadRuns(t) ==
  /\ t \in ThreadIds
  /\ \/ ThreadBind(t)
     \/ FnReturn(t)
     \/ DecRead(t)
     \/ DecWrite(t)

\* a step of the main thread in run_parallel
MainRuns ==
  \/ Iterate
  \/ LoopEnd
  \/ Launch
  \/ Throttle
  \/ JoinAll

Fairness ==
  /\ WF_vars(MainRuns)
  /\ \A t \in 1..(MaxTasks + 1) : WF_vars(ThreadRuns(t))

SpecParFair == InitPar /\ [][NextPar]_vars /\ Fairness

\* C15: when no command fails, run_parallel returns.
C15_RunParallelReturns == [](err_called = { }) => <>(pc = "rp_ret")

\* run_parallel has returned from MaxTasks tasks although nr_active lost a
\* decrement on the way
C15_Witness ==
  /\ pc = "rp_ret"
  /\ Len(threads) = MaxTasks
  /\ max_active = MaxActive
  /\ err_called = { }
  /\ nr_active > 0

\* C16: while no command has failed, nr_active stays within 0..max_active
\* and is 0 when run_parallel has returned.
C16_NrActiveCountsRunningTasks ==
  err_called = { } =>
    /\ nr_active \in 0..max_active
    /\ pc = "rp_ret" => nr_active = 0

(***************************************************************************)
(* The files the tasks of a stage write.                                   *)
(***************************************************************************)
\* C17: no two tasks of one run_parallel call write the same file.
C17_TasksWriteDistinctFiles ==
  InRunParallel =>
    \A i, j \in 1..Len(args_set) :
      i # j => args_set[i].outs \cap args_set[j].outs = { }

(***************************************************************************)
(* Page numbers.                                                           *)
(***************************************************************************)
\* the number of the page at position i of the list (i = 1 for the first)
PageNumber(i) == prog_args.number_start.v + i - 1

\* C18: numbers go by position: one number image is generated for every
\* position of the list, and the composite of the page at position i reads
\* the image of number_start + i - 1.
C18_NumbersFollowListPosition ==
  /\ (InRunParallel /\ stage = "numbergen") =>
       /\ Len(args_set) = Len(srcs)
       /\ \A i \in 1..Len(srcs) :
            args_set[i].outs = { Tagged(TagNUMBER, StrOf(PageNumber(i)) \o PNG) }
  /\ (InRunParallel /\ stage = "numberapply") =>
       /\ Len(args_set) = Len(srcs)
       /\ \A i \in 1..Len(srcs) :
            args_set[i].ins
              = { Tagged(TagNUMBER, StrOf(PageNumber(i)) \o PNG), srcs[i] }

(***************************************************************************)
(* The stages one after the other.                                         *)
(***************************************************************************)
StageRank(st) ==
  CASE st = "none" -> 0
    [] st = "render" -> 1
    [] st = "resize" -> 2
    [] st = "merge" -> 3
    [] st = "labelgen" -> 4
    [] st = "labelapply" -> 5
    [] st = "numbergen" -> 6
    [] st = "numberapply" -> 7

\* the files the tasks of the running stage write
StageOutputs == UNION { args_set[i].outs : i \in 1..Len(args_set) }

\* C19: a stage starts, and the final convert runs, only when every thread
\* of the stage before has ended; the stages come in the order render,
\* resize, merge, label generation, label apply, number generation, number
\* apply; and no task reads a file that a task of its own stage writes.
C19_StagesSeparatedByBarriers ==
  [][/\ (stage' # stage \/ (pc = "collect" /\ pc' = "exited")) =>
          \A t \in ThreadIds : threads[t].st = "dead"
     /\ stage' # stage => StageRank(stage') > StageRank(stage)
     /\ \A i \in 1..Len(args_set) : args_set[i].ins \cap StageOutputs = { }]_vars

\* every stage has run with concurrent tasks and the final convert has run
C19_Witness ==
  /\ collected # << >>
  /\ stage = "numberapply"
  /\ prog_args.header /\ prog_args.label_sep.some
  /\ prog_args.concurrency = MaxConcurrency
  /\ Len(srcs) = 2 /\ srcs[1] # srcs[2]

(***************************************************************************)
(* The lists of names as a function of the configuration and the           *)
(* documents.                                                              *)
(***************************************************************************)
\* the page files of all documents
AllPageFiles == UNION { PageFiles(pdfs[i]) : i \in 1..Len(pdfs) }

\* the names the pattern of srcs entry src selects among all page files, in
\* sorted order
SelectedPages(src) ==
  LET prefix == SplitExt(src)[1]
      S == { f \in AllPageFiles :
               /\ IsPrefix(prefix, f)
               /\ IsSuffix(PNG, SubSeq(f, Len(prefix) + 1, Len(f))) }
  IN  sorted_mixed_basename(CHOOSE l \in Listings(S) : TRUE)

\* the list after the render stage of the run in which every task is run
\* once: the run the program makes with --concurrency 1
RenderedInOrder ==
  Flatten([i \in 1..Len(pdfs) |->
             SelectedPages(Tagged(TagSRC, stem_name(pdfs[i]) \o PNG))])

\* C20: with no failed command the list after the render stage, and with it
\* the list given to the final convert, is the same under every scheduling
\* of the tasks: it is the list of the run with --concurrency 1.
C20_ListsIndependentOfScheduling ==
  err_called = { } =>
    /\ pc = "resize" => srcs = RenderedInOrder
    /\ collected # << >> =>
         [i \in 1..Len(CollectedPages) |-> Identity(CollectedPages[i])]
           = [i \in 1..Len(RenderedInOrder) |-> Identity(RenderedInOrder[i])]

(***************************************************************************)
(* The resolved list without keep_order.                                   *)
(***************************************************************************)
\* how often document p occurs in the expansions of the sources
TimesExpanded(p) ==
  Cardinality({ k \in 1..Len(prog_args.src) :
                  IF IsDir(EffSrc(k)) THEN p \in GlobPdf(EffSrc(k)) ELSE p = EffSrc(k) })

\* how often document p occurs in pdfs
TimesResolved(p) == Cardinality({ j \in 1..Len(pdfs) : pdfs[j] = p })

\* C21: without keep_order the resolution of valid sources gives a list: it
\* ends only by err for an invalid source; and the list holds every
\* expanded document as often as it was expanded, in non-decreasing order
\* of the keys of the stems.
C21_ResolvedListIsSortedPermutation ==
  ~prog_args.keep_order =>
    /\ pc = "exited" => err_called # { }
    /\ pc = "resolved" =>
         /\ \A p \in ResFiles \cup { pdfs[j] : j \in 1..Len(pdfs) } :
              TimesResolved(p) = TimesExpanded(p)
         /\ \A j \in 1..(Len(pdfs) - 1) :
              KeyLE(BasenameKey(pdfs[j]), BasenameKey(pdfs[j + 1]))

(***************************************************************************)
(* Stems that are prefixes of one another, and segment boundaries.         *)
(***************************************************************************)
IsProperPrefix(a, b) == Len(a) < Len(b) /\ SubSeq(b, 1, Len(a)) = a

\* a is two digit segments with "-" between them and b is their digits
\* without it
SegmentsJoined(a, b) ==
  \E i \in 2..(Len(a) - 1) :
    /\ a[i] = "-"
    /\ AllDigits(SubSeq(a, 1, i - 1))
    /\ AllDigits(SubSeq(a, i + 1, Len(a)))
    /\ b = SubSeq(a, 1, i - 1) \o SubSeq(a, i + 1, Len(a))

\* C22: the key of a stem that is a proper prefix of another compares with
\* the other's key and is not the greater; and the key of two digit segments
\* differs from the key of their digits joined.
C22_PrefixSortsFirst ==
  kpc = "compared" =>
    /\ IsProperPrefix(sa, sb) => cmp \in { "lt", "eq" }
    /\ SegmentsJoined(sa, sb) => (ka # kb /\ cmp \in { "lt", "gt" })

C22_Witness ==
  /\ kpc = "compared"
  /\ sa = << "D", "1" >> /\ sb = << "D", "1", "0" >>
  /\ IsProperPrefix(sa, sb)
  /\ cmp = "lt"

=============================================================================
